---- MODULE Spec2Model ----
(***************************************************************************)
(* ULEZ_Checker (ulez_checker.py): check_vrm, to_bool, pretty_print and    *)
(* the interactive loop of main, as a state machine.                       *)
(*                                                                         *)
(* A Python string that the code inspects (the VRM) is a sequence of       *)
(* characters; module text being ASCII, a character outside ASCII is       *)
(* written by its code point, "U+00E9".  A Python value (what json.loads   *)
(* yields) is a record tagged with its type name t; the payload is s for a *)
(* str, n for an int or a bool (bool is an int subclass: 0 or 1), l for a  *)
(* list, and for a dict the keys k in insertion order and the mapping d.   *)
(* JSON floats are not represented.  The outcome of a call is a record of  *)
(* kind "return" or "raise".                                               *)
(***************************************************************************)
EXTENDS Integers, Sequences, FiniteSets, TLC

VARIABLES
    pc,        \* position of main: "prompt", "input", "check", "terminated"
    vrm,       \* main's local vrm: the line read by input()
    request,   \* the POST issued by the current check_vrm call, or NoRequest
    reply,     \* what requests.post did in the current call: returned the
               \* response r, raised, or NoReply when it was not called
    outcome,   \* what check_vrm(vrm) did: returned a value or raised
    stdout,    \* lines written to standard output in the current loop iteration
    uncaught,  \* the exception that left main, or NoException
    posts,     \* number of HTTP POSTs issued so far
    calls,     \* number of check_vrm calls so far
    earlier    \* the last successful lookup made before the current iteration

vars == <<pc, vrm, request, reply, outcome, stdout, uncaught, posts, calls, earlier>>

-----------------------------------------------------------------------------
(* Bounds *)

MaxLen == 2

MaxCalls == 2

Alphabet == {"a", "A", " ", "!", "U+00E9"}

RECURSIVE StringsUpTo(_)
StringsUpTo(n) ==
    IF n = 0 THEN {<<>>}
    ELSE LET S == StringsUpTo(n - 1)
         IN S \cup {Append(s, c) : s \in {x \in S : Len(x) = n - 1}, c \in Alphabet}

Inputs == StringsUpTo(MaxLen)

-----------------------------------------------------------------------------
(* Python values and call outcomes *)

PyStr(s) == [t |-> "str", s |-> s]

PyInt(n) == [t |-> "int", n |-> n]

PyBool(b) == [t |-> "bool", n |-> IF b THEN 1 ELSE 0]

\* A dict: its keys in insertion order and the value under each key.
PyDict(k, f) == [t |-> "dict", k |-> k, d |-> f]

\* The dict written {key: value, ...}: pairs <<key, value>> with distinct keys.
Dict(pairs) ==
    PyDict([i \in DOMAIN pairs |-> pairs[i][1]],
           [key \in {pairs[i][1] : i \in DOMAIN pairs} |->
               pairs[CHOOSE i \in DOMAIN pairs : pairs[i][1] = key][2]])

PyList(l) == [t |-> "list", l |-> l]

PyNone == [t |-> "NoneType"]

Return(value) == [kind |-> "return", value |-> value]

Raise(type, msg) == [kind |-> "raise", type |-> type, msg |-> msg]

\* requests.HTTPError(msg, response=r): it carries the response's status code.
HTTPError(msg, r) ==
    [kind |-> "raise", type |-> "HTTPError", msg |-> msg, status_code |-> r.status_code]

NoOutcome == [kind |-> "none"]

NoException == [kind |-> "none"]

NoReply == [kind |-> "none"]

NoEarlier == [vrm |-> <<>>, value |-> PyNone]

\* The exception classes involved and their direct base classes.
BaseClasses(type) ==
    CASE type = "JSONDecodeError" -> {"ValueError"}
      [] type = "HTTPError" -> {"RequestException"}
      [] type = "ConnectionError" -> {"RequestException"}
      [] type = "ReadTimeout" -> {"Timeout"}
      [] type = "Timeout" -> {"RequestException"}
      [] type = "InvalidHeader" -> {"RequestException", "ValueError"}
      [] type = "RequestException" -> {"OSError"}
      [] type = "KeyError" -> {"LookupError"}
      [] type = "KeyboardInterrupt" -> {"BaseException"}
      [] type = "Exception" -> {"BaseException"}
      [] type = "BaseException" -> {}
      [] OTHER -> {"Exception"}

RECURSIVE isinstance(_, _)
isinstance(type, classes) ==
    \/ type \in classes
    \/ \E base \in BaseClasses(type) : isinstance(base, classes)

-----------------------------------------------------------------------------
(* Strings *)

Lowers == <<"a", "b", "c", "d", "e", "f", "g", "h", "i", "j", "k", "l", "m",
            "n", "o", "p", "q", "r", "s", "t", "u", "v", "w", "x", "y", "z">>

Uppers == <<"A", "B", "C", "D", "E", "F", "G", "H", "I", "J", "K", "L", "M",
            "N", "O", "P", "Q", "R", "S", "T", "U", "V", "W", "X", "Y", "Z">>

DigitChars == <<"0", "1", "2", "3", "4", "5", "6", "7", "8", "9">>

Range(s) == {s[i] : i \in DOMAIN s}

\* ''.join(s): the TLA+ string made of the characters of s.
RECURSIVE Join(_)
Join(s) == IF s = <<>> THEN "" ELSE Head(s) \o Join(Tail(s))

\* ', '.join(s) for a sequence s of TLA+ strings and the separator sep.
RECURSIVE JoinWith(_, _)
JoinWith(s, sep) ==
    IF s = <<>> THEN ""
    ELSE IF Len(s) = 1 THEN s[1]
    ELSE s[1] \o sep \o JoinWith(Tail(s), sep)

\* str(n) for a natural number n.
RECURSIVE IntStr(_)
IntStr(n) ==
    IF n < 10 THEN DigitChars[n + 1]
    ELSE IntStr(n \div 10) \o DigitChars[(n % 10) + 1]

\* str(n) for an integer n.
int_str(n) == IF n < 0 THEN "-" \o IntStr(-n) ELSE IntStr(n)

\* str.upper() outside ASCII, for the characters U+00A0..U+00FF and U+0131,
\* U+01C5, U+FB01: the characters it changes, each with its upper-case form
\* (which may be longer than one character).
UpperOther ==
    << <<"U+00B5", <<"U+039C">> >>, <<"U+00DF", <<"S", "S">> >>,
       <<"U+00E0", <<"U+00C0">> >>, <<"U+00E1", <<"U+00C1">> >>,
       <<"U+00E2", <<"U+00C2">> >>, <<"U+00E3", <<"U+00C3">> >>,
       <<"U+00E4", <<"U+00C4">> >>, <<"U+00E5", <<"U+00C5">> >>,
       <<"U+00E6", <<"U+00C6">> >>, <<"U+00E7", <<"U+00C7">> >>,
       <<"U+00E8", <<"U+00C8">> >>, <<"U+00E9", <<"U+00C9">> >>,
       <<"U+00EA", <<"U+00CA">> >>, <<"U+00EB", <<"U+00CB">> >>,
       <<"U+00EC", <<"U+00CC">> >>, <<"U+00ED", <<"U+00CD">> >>,
       <<"U+00EE", <<"U+00CE">> >>, <<"U+00EF", <<"U+00CF">> >>,
       <<"U+00F0", <<"U+00D0">> >>, <<"U+00F1", <<"U+00D1">> >>,
       <<"U+00F2", <<"U+00D2">> >>, <<"U+00F3", <<"U+00D3">> >>,
       <<"U+00F4", <<"U+00D4">> >>, <<"U+00F5", <<"U+00D5">> >>,
       <<"U+00F6", <<"U+00D6">> >>, <<"U+00F8", <<"U+00D8">> >>,
       <<"U+00F9", <<"U+00D9">> >>, <<"U+00FA", <<"U+00DA">> >>,
       <<"U+00FB", <<"U+00DB">> >>, <<"U+00FC", <<"U+00DC">> >>,
       <<"U+00FD", <<"U+00DD">> >>, <<"U+00FE", <<"U+00DE">> >>,
       <<"U+00FF", <<"U+0178">> >>, <<"U+0131", <<"I">> >>,
       <<"U+01C5", <<"U+01C4">> >>, <<"U+FB01", <<"F", "I">> >> >>

\* str.isalnum() outside ASCII: the alphanumeric characters among those of
\* UpperOther, their upper-case forms, U+00A0..U+00FF, U+0130, U+0663, U+2167.
AlnumOther ==
    {"U+00AA", "U+00B2", "U+00B3", "U+00B5", "U+00B9", "U+00BA", "U+00BC",
     "U+00BD", "U+00BE", "U+00C0", "U+00C1", "U+00C2", "U+00C3", "U+00C4",
     "U+00C5", "U+00C6", "U+00C7", "U+00C8", "U+00C9", "U+00CA", "U+00CB",
     "U+00CC", "U+00CD", "U+00CE", "U+00CF", "U+00D0", "U+00D1", "U+00D2",
     "U+00D3", "U+00D4", "U+00D5", "U+00D6", "U+00D8", "U+00D9", "U+00DA",
     "U+00DB", "U+00DC", "U+00DD", "U+00DE", "U+00DF", "U+00E0", "U+00E1",
     "U+00E2", "U+00E3", "U+00E4", "U+00E5", "U+00E6", "U+00E7", "U+00E8",
     "U+00E9", "U+00EA", "U+00EB", "U+00EC", "U+00ED", "U+00EE", "U+00EF",
     "U+00F0", "U+00F1", "U+00F2", "U+00F3", "U+00F4", "U+00F5", "U+00F6",
     "U+00F8", "U+00F9", "U+00FA", "U+00FB", "U+00FC", "U+00FD", "U+00FE",
     "U+00FF", "U+0130", "U+0131", "U+0178", "U+01C4", "U+01C5", "U+039C",
     "U+0663", "U+2167", "U+FB01"}

AlnumChars == Range(Lowers) \cup Range(Uppers) \cup Range(DigitChars) \cup AlnumOther

\* str.upper() of one character: a string of one or more characters.
upper_char(c) ==
    IF \E i \in DOMAIN Lowers : Lowers[i] = c
    THEN <<Uppers[CHOOSE i \in DOMAIN Lowers : Lowers[i] = c]>>
    ELSE IF \E i \in DOMAIN UpperOther : UpperOther[i][1] = c
    THEN UpperOther[CHOOSE i \in DOMAIN UpperOther : UpperOther[i][1] = c][2]
    ELSE <<c>>

\* s.replace(' ', '')
replace_spaces(s) == SelectSeq(s, LAMBDA c : c # " ")

\* s.upper()
RECURSIVE upper(_)
upper(s) == IF s = <<>> THEN <<>> ELSE upper_char(Head(s)) \o upper(Tail(s))

\* isalnum without the test for the empty string.
isalnum_empty_ok(s) == \A i \in DOMAIN s : s[i] \in AlnumChars

\* str.isalnum(): non-empty and every character alphanumeric.
isalnum(s) ==
    /\ Len(s) > 0
    /\ \A i \in DOMAIN s : s[i] \in AlnumChars

\* normalize without the removal of spaces.
normalize_keep_spaces(s) == upper(s)

\* vrm.replace(' ', '').upper()
normalize(s) == upper(replace_spaces(s))

\* repr(x); a str is taken to hold no quote, backslash or control character.
RECURSIVE repr(_)
repr(x) ==
    CASE x.t = "str" -> "'" \o x.s \o "'"
      [] x.t = "int" -> int_str(x.n)
      [] x.t = "bool" -> IF x.n = 1 THEN "True" ELSE "False"
      [] x.t = "dict" ->
            "{" \o JoinWith([i \in DOMAIN x.k |->
                               "'" \o x.k[i] \o "': " \o repr(x.d[x.k[i]])], ", ") \o "}"
      [] x.t = "list" ->
            "[" \o JoinWith([i \in DOMAIN x.l |-> repr(x.l[i])], ", ") \o "]"
      [] OTHER -> "None"

\* str(x) as an f-string or print renders a value.
format(x) == IF x.t = "str" THEN x.s ELSE repr(x)

-----------------------------------------------------------------------------
(* JSON text, HTTP requests and responses *)

\* A JSON text: the value it encodes when well formed, else the message of
\* the JSONDecodeError that parsing it raises.
JsonText(value) == [wellformed |-> TRUE, value |-> value, error |-> ""]

BadText(error) == [wellformed |-> FALSE, value |-> PyNone, error |-> error]

json_dumps(value) == JsonText(value)

json_loads(text) ==
    IF text.wellformed THEN Return(text.value)
    ELSE Raise("JSONDecodeError", text.error)

URL == "https://mobileapim.tfl.gov.uk/Prod/unirucCapitaFacade/VRMLookup"

NoRequest == [url |-> "", data |-> BadText(""), headers |-> <<>>]

\* obj[key] for a Python value obj and a str key (messages of CPython 3.11).
getitem(obj, key) ==
    CASE obj.t = "dict" ->
            IF key \in DOMAIN obj.d THEN Return(obj.d[key])
            ELSE Raise("KeyError", "'" \o key \o "'")
      [] obj.t = "str" ->
            Raise("TypeError", "string indices must be integers, not 'str'")
      [] obj.t = "list" ->
            Raise("TypeError", "list indices must be integers or slices, not str")
      [] OTHER ->
            Raise("TypeError", "'" \o obj.t \o "' object is not subscriptable")

\* obj[path[1]][path[2]]...
RECURSIVE getpath(_, _)
getpath(obj, path) ==
    IF path = <<>> THEN Return(obj)
    ELSE LET first == getitem(obj, Head(path))
         IN IF first.kind = "raise" THEN first
            ELSE getpath(first.value, Tail(path))

\* obj[path[1]]...[path[n]] = value, for a path that exists up to its last key.
RECURSIVE setpath(_, _, _)
setpath(obj, path, value) ==
    IF Len(path) = 1
    THEN PyDict(IF path[1] \in DOMAIN obj.d THEN obj.k ELSE Append(obj.k, path[1]),
                [k \in DOMAIN obj.d \cup {path[1]} |->
                    IF k = path[1] THEN value ELSE obj.d[k]])
    ELSE PyDict(obj.k, [obj.d EXCEPT ![Head(path)] = setpath(@, Tail(path), value)])

\* requests' Response.raise_for_status()
raise_for_status(r) ==
    IF 400 <= r.status_code /\ r.status_code < 500
    THEN HTTPError(IntStr(r.status_code) \o " Client Error: " \o r.reason
                   \o " for url: " \o URL, r)
    ELSE IF 500 <= r.status_code /\ r.status_code < 600
    THEN HTTPError(IntStr(r.status_code) \o " Server Error: " \o r.reason
                   \o " for url: " \o URL, r)
    ELSE Return(PyNone)

-----------------------------------------------------------------------------
(* check_vrm *)

\* The request payload built for a normalized VRM v.
content(v) ==
    Dict(<< <<"vrmLookupRequest",
               Dict(<< <<"vRM", PyStr(Join(v))>>,
                       <<"country", PyStr("UK")>>,
                       <<"date", Dict(<<>>)>> >>)>> >>)

\* requests.post(url, json.dumps(content), headers=...)
post(v) ==
    [url |-> URL,
     data |-> json_dumps(content(v)),
     headers |-> << <<"accept", "application/json">>,
                    <<"content-type", "application/json">> >>]

MakePath == <<"vrmLookupResponse", "vehicleDetails", "make">>

VrmPath == <<"vrmLookupResponse", "vehicleDetails", "vrm">>

\* The make test looking for None instead of the empty string.
make_is_none(make) == make.t = "NoneType"

\* vrm_response[...]['make'] == ''
make_is_empty(make) == make.t = "str" /\ make.s = ""

\* The VRM stored at the top level of the response instead of in vehicleDetails.
inject_vrm_top(vrm_response, v) == setpath(vrm_response, <<"vrm">>, PyStr(Join(v)))

\* vrm_response['vrmLookupResponse']['vehicleDetails']['vrm'] = vrm
inject_vrm(vrm_response, v) == setpath(vrm_response, VrmPath, PyStr(Join(v)))

\* The branch taken once the response r has arrived.
handle_response(v, r) ==
    IF r.status_code = 200
    THEN LET loaded == json_loads(r.text)
         IN IF loaded.kind = "raise" THEN loaded
            ELSE LET make == getpath(loaded.value, MakePath)
                 IN IF make.kind = "raise" THEN make
                    ELSE IF make_is_empty(make.value)
                    THEN Raise("ValueError", "VRM is invalid: " \o Join(v))
                    ELSE Return(inject_vrm(loaded.value, v))
    ELSE LET raised == raise_for_status(r)
         IN IF raised.kind = "raise" THEN raised ELSE Return(PyNone)

\* check_vrm(raw) when requests.post, if it is called, does what posted says
\* (returns the response posted.value or raises): the request issued (or
\* NoRequest) and the outcome of the call, which is NoOutcome as long as a
\* request has no reply.
check_vrm(raw, posted) ==
    LET v == normalize(raw)
    IN IF isalnum(v)
       THEN [request |-> post(v),
             outcome |-> CASE posted.kind = "raise" -> posted
                           [] posted.kind = "return" -> handle_response(v, posted.value)
                           [] OTHER -> NoOutcome]
       ELSE [request |-> NoRequest,
             outcome |-> Raise("ValueError", "VRM is invalid: " \o Join(v))]

-----------------------------------------------------------------------------
(* to_bool and pretty_print *)

\* number == 1 under Python equality: the int 1 and the bool True.
to_bool(number) == PyBool(number.t \in {"int", "bool"} /\ number.n = 1)

Dashes == "-----------------------------------------"

\* The lookups of the f-string of pretty_print, in evaluation order: the text
\* before the value, the keys under lr, and whether to_bool is applied.
ReportFields ==
    << [label |-> "VRM: ", path |-> <<"vehicleDetails", "vrm">>, bool |-> FALSE],
       [label |-> "Make: ", path |-> <<"vehicleDetails", "make">>, bool |-> FALSE],
       [label |-> "Model: ", path |-> <<"vehicleDetails", "model">>, bool |-> FALSE],
       [label |-> "Colour: ", path |-> <<"vehicleDetails", "colour">>, bool |-> FALSE],
       [label |-> "Tax Code: ", path |-> <<"vehicleDetails", "taxCode">>, bool |-> FALSE],
       [label |-> "    Congestion: ",
        path |-> <<"vehicleDetails", "chargeability", "isCcChargeable">>, bool |-> TRUE],
       [label |-> "    LEZ: ",
        path |-> <<"vehicleDetails", "chargeability", "isLezChargeable">>, bool |-> TRUE],
       [label |-> "    ULEZ: ",
        path |-> <<"vehicleDetails", "chargeability", "isUlezChargeable">>, bool |-> TRUE],
       [label |-> "    ES: ",
        path |-> <<"vehicleDetails", "chargeability", "isEsChargeable">>, bool |-> TRUE],
       [label |-> "Auto Pay: ", path |-> <<"vehicleDetails", "inAutoPay">>, bool |-> FALSE],
       [label |-> "Auto Pay Exceptions: ",
        path |-> <<"vehicleDetails", "inAutoPayExceptions">>, bool |-> FALSE],
       [label |-> "Congestion Charge 100% Discounted: ",
        path |-> <<"vehicleDetails", "isCc100PcDiscounted">>, bool |-> FALSE],
       [label |-> "ULEZ 100% Discounted: ",
        path |-> <<"vehicleDetails", "isUlez100PcDiscounted">>, bool |-> FALSE],
       [label |-> "ULEZ Exempt: ", path |-> <<"vehicleDetails", "isULEZExempt">>, bool |-> TRUE],
       [label |-> "ULEZ Vehicle Type List: ",
        path |-> <<"vehicleDetails", "uLEZVehicleListType">>, bool |-> FALSE],
       [label |-> "ULEZ Non-Chargeable: ",
        path |-> <<"vehicleDetails", "isULEZNonChargeable">>, bool |-> TRUE] >>

\* One "label: value" line of the report, or the exception its lookup raises.
report_line(lr, field) ==
    LET got == getpath(lr, field.path)
    IN IF got.kind = "raise" THEN got
       ELSE Return(field.label \o format(IF field.bool THEN to_bool(got.value)
                                                        ELSE got.value))

\* The text pretty_print hands to print, as lines; "Chargeability:" is the
\* literal line before the first chargeability flag.
report_lines(lr) ==
    LET line(i) == report_line(lr, ReportFields[i]).value
    IN <<"", Dashes>>
       \o [i \in 1..5 |-> line(i)]
       \o <<"Chargeability:">>
       \o [i \in 1..(Len(ReportFields) - 5) |-> line(i + 5)]
       \o <<Dashes, "">>

\* pretty_print(vrm_response): the lines printed, or the first exception raised.
pretty_print(vrm_response) ==
    LET lr == getitem(vrm_response, "vrmLookupResponse")
    IN IF lr.kind = "raise" THEN lr
       ELSE LET failing == {i \in DOMAIN ReportFields :
                               report_line(lr.value, ReportFields[i]).kind = "raise"}
            IN IF failing # {}
               THEN report_line(lr.value,
                        ReportFields[CHOOSE i \in failing : \A j \in failing : i <= j])
               ELSE Return(report_lines(lr.value))

-----------------------------------------------------------------------------
(* The upstream answers considered *)

Chargeability(cc, lez, ulez, es) ==
    Dict(<< <<"isCcChargeable", cc>>, <<"isLezChargeable", lez>>,
            <<"isUlezChargeable", ulez>>, <<"isEsChargeable", es>> >>)

FordDetails ==
    << <<"make", PyStr("Ford")>>, <<"model", PyStr("Fiesta")>>,
       <<"colour", PyStr("Blue")>>, <<"taxCode", PyStr("PLG")>>,
       <<"chargeability", Chargeability(PyInt(1), PyInt(0), PyInt(1), PyInt(0))>>,
       <<"inAutoPay", PyBool(FALSE)>>, <<"inAutoPayExceptions", PyBool(FALSE)>>,
       <<"isCc100PcDiscounted", PyBool(FALSE)>>, <<"isUlez100PcDiscounted", PyBool(TRUE)>>,
       <<"isULEZExempt", PyInt(0)>>, <<"uLEZVehicleListType", PyStr("NC")>>,
       <<"isULEZNonChargeable", PyInt(1)>> >>

\* Flags that are neither 0 nor 1, a flag sent as a string, fields that are a
\* negative number, an object and a list, and a vrm echoed back by the upstream.
AudiDetails ==
    << <<"vrm", PyStr("echo")>>,
       <<"make", PyStr("Audi")>>, <<"model", PyStr("A3")>>,
       <<"colour", PyStr("Grey")>>,
       <<"taxCode", Dict(<< <<"code", PyInt(-5)>>, <<"band", PyStr("A")>> >>)>>,
       <<"chargeability", Chargeability(PyInt(0), PyInt(2), PyInt(0), PyStr("1"))>>,
       <<"inAutoPay", PyBool(TRUE)>>, <<"inAutoPayExceptions", PyInt(-5)>>,
       <<"isCc100PcDiscounted", PyStr("N")>>, <<"isUlez100PcDiscounted", PyBool(FALSE)>>,
       <<"isULEZExempt", PyInt(1)>>,
       <<"uLEZVehicleListType", PyList(<<PyStr("NC"), PyInt(2)>>)>>,
       <<"isULEZNonChargeable", PyNone>> >>

\* What the upstream sends for a VRM it does not know.
UnknownDetails ==
    << <<"make", PyStr("")>>, <<"model", PyStr("")>>, <<"colour", PyStr("")>> >>

\* The pairs of an object without the one of the given key.
remove_key(pairs, key) == SelectSeq(pairs, LAMBDA p : p[1] # key)

LookupResponse(details) ==
    JsonText(Dict(<< <<"vrmLookupResponse",
                       Dict(<< <<"vehicleDetails", Dict(details)>> >>)>> >>))

Bodies ==
    { BadText("Expecting value: line 1 column 1 (char 0)"),
      JsonText(Dict(<< <<"error", PyStr("busy")>> >>)),
      LookupResponse(UnknownDetails),
      LookupResponse(FordDetails),
      LookupResponse(AudiDetails),
      LookupResponse(remove_key(FordDetails, "chargeability")) }

Responses ==
    {[status_code |-> 200, reason |-> "OK", text |-> b] : b \in Bodies}
    \cup {[status_code |-> 204, reason |-> "No Content", text |-> BadText("")],
          [status_code |-> 404, reason |-> "Not Found",
           text |-> LookupResponse(FordDetails)],
          [status_code |-> 500, reason |-> "Internal Server Error",
           text |-> BadText("Expecting value: line 1 column 1 (char 0)")]}

\* requests.post ending without a response: the connection is reset, the
\* read times out, or the response's headers are malformed.  The messages are
\* str(e) of the exception that requests raises.
TransportErrors ==
    {Raise("ConnectionError",
           "('Connection aborted.', ConnectionResetError(104, 'Connection reset by peer'))"),
     Raise("ReadTimeout",
           "HTTPSConnectionPool(host='mobileapim.tfl.gov.uk', port=443): "
              \o "Read timed out. (read timeout=None)"),
     Raise("InvalidHeader",
           "Content-Length contained multiple unmatching values (1, 2)")}

\* The user's interrupt, delivered while the program waits in a blocking call.
KeyboardInterrupt == Raise("KeyboardInterrupt", "")

\* What requests.post can do once called.
Replies == {Return(r) : r \in Responses} \cup TransportErrors \cup {KeyboardInterrupt}

-----------------------------------------------------------------------------
(* main *)

PromptText == "Enter a vehicle registration mark to check: "

\* An except clause that names ValueError only.
caught_value_error(err) == isinstance(err.type, {"ValueError"})

\* except (ValueError, HTTPError) as err
caught(err) == isinstance(err.type, {"ValueError", "HTTPError"})

\* The body of the try statement and its handler, given what check_vrm did:
\* the lines printed and the exception that escapes, if any.
try_body(checked) ==
    LET printed == IF checked.kind = "return" THEN pretty_print(checked.value)
                   ELSE checked
    IN IF printed.kind = "return"
       THEN [lines |-> printed.value, escaped |-> NoException]
       ELSE IF caught(printed)
       THEN [lines |-> <<"An error occurred - " \o printed.msg>>, escaped |-> NoException]
       ELSE [lines |-> <<>>, escaped |-> printed]

Init ==
    /\ pc = "prompt"
    /\ vrm = <<>>
    /\ request = NoRequest
    /\ reply = NoReply
    /\ outcome = NoOutcome
    /\ stdout = <<>>
    /\ uncaught = NoException
    /\ posts = 0
    /\ calls = 0
    /\ earlier = NoEarlier

\* Top of the loop: print the prompt.  The locals of the finished iteration
\* are dead from here on; a lookup it completed becomes the earlier lookup.
Prompt ==
    /\ pc = "prompt"
    /\ calls < MaxCalls
    /\ stdout' = <<PromptText>>
    /\ earlier' = IF outcome.kind = "return" /\ outcome.value.t = "dict"
                  THEN [vrm |-> normalize(vrm), value |-> outcome.value]
                  ELSE earlier
    /\ vrm' = <<>>
    /\ request' = NoRequest
    /\ reply' = NoReply
    /\ outcome' = NoOutcome
    /\ pc' = "input"
    /\ UNCHANGED <<uncaught, posts, calls>>

\* vrm = input(): a line is read.
Input ==
    /\ pc = "input"
    /\ \E line \in Inputs : vrm' = line
    /\ pc' = "check"
    /\ UNCHANGED <<request, reply, outcome, stdout, uncaught, posts, calls, earlier>>

\* vrm = input(): standard input is at end of file.
InputEof ==
    /\ pc = "input"
    /\ uncaught' = Raise("EOFError", "EOF when reading a line")
    /\ pc' = "terminated"
    /\ UNCHANGED <<vrm, request, reply, outcome, stdout, posts, calls, earlier>>

\* vrm = input(): the user interrupts the program.
InputInterrupt ==
    /\ pc = "input"
    /\ uncaught' = KeyboardInterrupt
    /\ pc' = "terminated"
    /\ UNCHANGED <<vrm, request, reply, outcome, stdout, posts, calls, earlier>>

\* check_vrm as its docstring describes it: a repeat request for the VRM of the
\* earlier lookup returns that lookup's response without asking the upstream.
Check_cached ==
    /\ pc = "check"
    /\ \E r \in Replies \cup {NoReply} :
          LET repeat == earlier # NoEarlier /\ earlier.vrm = normalize(vrm)
              checked == IF repeat
                         THEN [request |-> NoRequest, outcome |-> Return(earlier.value)]
                         ELSE check_vrm(vrm, r)
              done == try_body(checked.outcome)
          IN /\ (r = NoReply) <=> (checked.request = NoRequest)
             /\ request' = checked.request
             /\ reply' = r
             /\ posts' = IF checked.request = NoRequest THEN posts ELSE posts + 1
             /\ outcome' = checked.outcome
             /\ stdout' = stdout \o done.lines
             /\ uncaught' = done.escaped
             /\ pc' = IF done.escaped = NoException THEN "prompt" ELSE "terminated"
    /\ calls' = calls + 1
    /\ UNCHANGED <<vrm, earlier>>

\* The try statement: check_vrm(vrm), with what requests.post does (r) when
\* a request is made, then pretty_print or the except clause.
Check ==
    /\ pc = "check"
    /\ \E r \in Replies \cup {NoReply} :
          LET checked == check_vrm(vrm, r)
              done == try_body(checked.outcome)
          IN /\ (r = NoReply) <=> (checked.request = NoRequest)
             /\ request' = checked.request
             /\ reply' = r
             /\ posts' = IF checked.request = NoRequest THEN posts ELSE posts + 1
             /\ outcome' = checked.outcome
             /\ stdout' = stdout \o done.lines
             /\ uncaught' = done.escaped
             /\ pc' = IF done.escaped = NoException THEN "prompt" ELSE "terminated"
    /\ calls' = calls + 1
    /\ UNCHANGED <<vrm, earlier>>

Next == Prompt \/ Input \/ InputEof \/ InputInterrupt \/ Check

Spec == Init /\ [][Next]_vars
-----------------------------------------------------------------------------
(* Vocabulary of the properties, stated without the operators of check_vrm *)

\* The upper-case form of a character of Alphabet.
CaseFold(c) == IF c = "a" THEN "A" ELSE IF c = "U+00E9" THEN "U+00C9" ELSE c

\* The normalized form of a raw input: spaces dropped, letters upper-cased.
RECURSIVE Canon(_)
Canon(raw) ==
    IF raw = <<>> THEN <<>>
    ELSE IF Head(raw) = " " THEN Canon(Tail(raw))
    ELSE <<CaseFold(Head(raw))>> \o Canon(Tail(raw))

\* A normalized form that passes validation: non-empty, letters and digits only.
ValidCanon(v) == v # <<>> /\ \A i \in DOMAIN v : v[i] \in {"A", "U+00C9"}

InvalidInputError(raw) == Raise("ValueError", "VRM is invalid: " \o Join(Canon(raw)))

\* a and b differ only in space characters and in letter case.
RECURSIVE SameButSpacesAndCase(_, _)
SameButSpacesAndCase(a, b) ==
    IF a # <<>> /\ Head(a) = " " THEN SameButSpacesAndCase(Tail(a), b)
    ELSE IF b # <<>> /\ Head(b) = " " THEN SameButSpacesAndCase(a, Tail(b))
    ELSE IF a = <<>> \/ b = <<>> THEN a = b
    ELSE /\ CaseFold(Head(a)) = CaseFold(Head(b))
         /\ SameButSpacesAndCase(Tail(a), Tail(b))

\* A check_vrm call has been made in the current iteration.
Called == outcome # NoOutcome

\* The current call received a response.
Responded == Called /\ request # NoRequest /\ reply.kind = "return"

\* The response r of the current call, when it received one.
response == reply.value

\* The current call received a response with the given status.
Answered(status) == Responded /\ response.status_code = status

\* The make field of the answer's body, when the body has one.
AnswerMake == getpath(response.text.value, MakePath)

HasMake == response.text.wellformed /\ AnswerMake.kind = "return"

\* The mapping f without the given key.
Without(f, key) == [k \in DOMAIN f \ {key} |-> f[k]]

\* The vehicleDetails dictionary of a lookup response.
DetailsOf(vrm_response) == vrm_response.d["vrmLookupResponse"].d["vehicleDetails"].d

\* The report cannot be produced from the answer's body: it is not JSON, has
\* no make, or lacks a field that the report reads.
UnexpectedShape ==
    \/ ~HasMake
    \/ \E i \in DOMAIN ReportFields :
          /\ ReportFields[i].path # <<"vehicleDetails", "vrm">>
          /\ getpath(response.text.value,
                     <<"vrmLookupResponse">> \o ReportFields[i].path).kind = "raise"

FlagFields == {i \in DOMAIN ReportFields : ReportFields[i].bool}

-----------------------------------------------------------------------------
(* Properties *)

\* C1: a call whose normalized VRM is empty or holds a non-alphanumeric
\* character raises ValueError naming the normalized value and issues no HTTP
\* request.
C1_InvalidInputNoRequest ==
    [][(pc = "check" /\ ~ValidCanon(Canon(vrm)))
         => /\ outcome' = InvalidInputError(vrm)
            /\ posts' = posts
            /\ request' = NoRequest
            /\ reply' = NoReply]_vars

C1_Witness ==
    /\ Called
    /\ "!" \in Range(vrm)
    /\ outcome = InvalidInputError(vrm)
    /\ request = NoRequest
    /\ posts > 0

\* C2: every answer whose status is not 200 makes check_vrm raise HTTPError
\* carrying that status; the call never returns on such an answer.
C2_NonOkRaisesHTTPError ==
    (Responded /\ response.status_code # 200)
        => /\ outcome.kind = "raise"
           /\ outcome.type = "HTTPError"
           /\ outcome.status_code = response.status_code

\* C3: a 200 answer whose make is the empty string makes check_vrm raise the
\* ValueError of a locally invalid VRM; nothing is returned.
C3_EmptyMakeInvalid ==
    (Answered(200) /\ HasMake /\ AnswerMake.value = PyStr(""))
        => outcome = InvalidInputError(vrm)

C3_Witness ==
    /\ Answered(200)
    /\ response.text = LookupResponse(UnknownDetails)
    /\ outcome = InvalidInputError(vrm)
    /\ pc = "prompt"

\* C4: a 200 answer with a non-empty make is returned with vehicleDetails.vrm
\* set to the normalized VRM and every other field as parsed.
C4_ReturnsNormalizedVrm ==
    (Answered(200) /\ HasMake /\ AnswerMake.value # PyStr(""))
        => /\ outcome.kind = "return"
           /\ outcome.value.t = "dict"
           /\ DOMAIN outcome.value.d = DOMAIN response.text.value.d
           /\ DOMAIN outcome.value.d["vrmLookupResponse"].d
                 = DOMAIN response.text.value.d["vrmLookupResponse"].d
           /\ DetailsOf(outcome.value)["vrm"] = PyStr(Join(Canon(vrm)))
           /\ Without(DetailsOf(outcome.value), "vrm")
                 = Without(DetailsOf(response.text.value), "vrm")

C4_Witness ==
    /\ Answered(200)
    /\ outcome.kind = "return"
    /\ pc = "prompt"
    /\ Canon(vrm) # vrm
    /\ response.text = LookupResponse(AudiDetails)
    /\ DetailsOf(outcome.value)["vrm"] = PyStr(Join(Canon(vrm)))

\* C5: an input that differs from the one given only in spaces and letter
\* case has, for the same answer, the same request and the same outcome.
C5_NormalizeBeforeValidate ==
    Called => \A other \in Inputs :
                 SameButSpacesAndCase(vrm, other)
                    => check_vrm(other, reply)
                          = [request |-> request, outcome |-> outcome]

C5_Witness ==
    /\ Called
    /\ pc = "prompt"
    /\ outcome.kind = "return"
    /\ " " \in Range(vrm)
    /\ "a" \in Range(vrm)
    /\ \E other \in Inputs : other # vrm /\ SameButSpacesAndCase(vrm, other)

\* C6: when check_vrm raises ValueError (or a subclass of it) or HTTPError the
\* loop prints the one line "An error occurred - <message>", prints no report,
\* and is back at the prompt; it has not terminated.
C6_ErrorReportedLoopContinues ==
    [][(/\ pc = "check"
        /\ outcome'.kind = "raise"
        /\ outcome'.type \in {"ValueError", "JSONDecodeError", "InvalidHeader", "HTTPError"})
         => /\ stdout' = Append(stdout, "An error occurred - " \o outcome'.msg)
            /\ pc' = "prompt"
            /\ uncaught' = NoException]_vars

C6_Witness ==
    /\ pc = "prompt"
    /\ outcome.kind = "raise"
    /\ outcome.type = "HTTPError"
    /\ Answered(500)
    /\ stdout = <<PromptText, "An error occurred - " \o outcome.msg>>

\* C7: a 200 answer whose body is not JSON or lacks what check_vrm or the
\* report reads does not terminate the loop.
C7_UnexpectedBodyKeepsLoop ==
    (Answered(200) /\ UnexpectedShape) => pc # "terminated"

\* C8: every call with a valid normalized VRM issues exactly one POST with the
\* lookup payload, also for a VRM looked up before, and its outcome is the one
\* that the reply to this POST determines.
C8_NoCaching ==
    [][(pc = "check" /\ ValidCanon(Canon(vrm)))
         => /\ posts' = posts + 1
            /\ request'.url = URL
            /\ json_loads(request'.data)
                  = Return(Dict(<< <<"vrmLookupRequest",
                                     Dict(<< <<"vRM", PyStr(Join(Canon(vrm)))>>,
                                             <<"country", PyStr("UK")>>,
                                             <<"date", Dict(<<>>)>> >>)>> >>))
            /\ reply' \in Replies
            /\ outcome' = IF reply'.kind = "raise" THEN reply'
                          ELSE handle_response(Canon(vrm), reply'.value)]_vars

C8_Witness ==
    /\ Called
    /\ earlier # NoEarlier
    /\ earlier.vrm = Canon(vrm)
    /\ request # NoRequest
    /\ posts >= 2
    /\ pc = "prompt"
    /\ outcome.kind = "return"
    /\ outcome.value.t = "dict"
    /\ outcome.value # earlier.value

\* C9: a call for the VRM of an earlier lookup returns the response of that
\* earlier lookup.
C9_RepeatReturnsPrevious ==
    (Called /\ earlier # NoEarlier /\ earlier.vrm = Canon(vrm))
        => outcome = Return(earlier.value)

\* C10: the report of a returned lookup shows each boolean flag as True when
\* its value is 1 and as False for any other value or when the field is
\* missing.
C10_FlagsRendered ==
    (Called /\ outcome.kind = "return" /\ outcome.value.t = "dict")
        => \A i \in FlagFields :
              LET flag == getpath(outcome.value,
                                  <<"vrmLookupResponse">> \o ReportFields[i].path)
                  shown == IF flag.kind = "return" /\ flag.value = PyInt(1)
                           THEN "True" ELSE "False"
              IN \E n \in DOMAIN stdout : stdout[n] = ReportFields[i].label \o shown

====
